---- MODULE Spec2Model ----
(***************************************************************************)
(* The AI video worker: an Express gateway (POST /generate-video) in front *)
(* of the scene pipeline (split note into scenes; per scene text-to-speech,*)
(* text-to-image with one retry on 503, duration probe; two concat         *)
(* manifests; one encoder run; upload; cleanup of the temporary directory).*)
(* Three pipelines of the repository are modelled:                         *)
(*   "agent" : generateVideoAndUpload, ElevenLabs SDK   (videoAgent.ts)    *)
(*   "axios" : generateVideoAndUpload, axios            (videoAgent.ts)    *)
(*   "note"  : generateVideoFromNote                    (unnamed/part_000) *)
(***************************************************************************)
EXTENDS Integers, Sequences, FiniteSets, TLC

\* ------------------------------------------------------------------ bounds
MaxLen == 4        \* longest note text, in characters
MaxDur == 1        \* longest probed audio duration, in seconds
MaxDirs == 2       \* names mkdtemp can draw from

\* ------------------------------------------------------- program constants
ServiceBusy == 503         \* "model is loading" status of the image endpoint
RetryDelaySeconds == 20    \* setTimeout(resolve, 20000)
Unauthorized == 401
BadRequest == 400
PayloadTooLarge == 413
ServerError == 500
Success == 200
NotANumber == -1           \* a duration that is the string "N/A", not a number

Reqs == {1, 2}             \* request identities
Solo == {1}                \* the request driven by Spec
DirIds == 1 .. MaxDirs
Alphabet == {"a", "."}
Terminators == {".", "!", "?"}
Whitespace == {" ", "\n"}

VARIABLES server, variant, req, dirs, files, store

vars == <<server, variant, req, dirs, files, store>>

\* ------------------------------------------------------------------ values
RECURSIVE StringsUpTo(_)
StringsUpTo(n) ==
  IF n = 0 THEN {<<>>}
  ELSE LET shorter == StringsUpTo(n - 1)
       IN  shorter \cup {Append(s, c) : s \in {t \in shorter : Len(t) = n - 1}, c \in Alphabet}

NoteTexts == StringsUpTo(MaxLen)

NoBytes == [kind |-> "bytes", id |-> 0, len |-> 0, lines |-> <<>>]
NoResponse == [status |-> 0, body |-> 0]
NoError == [kind |-> "", status |-> 0, body |-> 0]
NoKey == [prefix |-> "", id |-> 0]
NoUrl == [bucket |-> "", key |-> NoKey]
NoHttp == [status |-> 0, url |-> NoUrl, error |-> ""]
NoBody == [kind |-> "json",
           noteId |-> [t |-> "undef", v |-> 0],
           noteText |-> [t |-> "undef", v |-> <<>>],
           subjectName |-> [t |-> "undef", v |-> ""]]

Err(kind) == [kind |-> kind, status |-> 0, body |-> 0]

Event(op, scene, res, status, body) ==
  [op |-> op, scene |-> scene, res |-> res, status |-> status, body |-> body]

FileName(base, idx, ext) == [base |-> base, idx |-> idx, ext |-> ext]

\* path.join(tempDir, name)
Path(dir, name) == [dir |-> dir, name |-> name]

\* one run of the prober: ffprobe's exit code and standard output, the
\* metadata fluent-ffmpeg made of it, and what getAudioDuration settled with
NoProbe ==
  [exit |-> 0, out |-> <<>>, meta |-> [present |-> FALSE, value |-> 0],
   failed |-> FALSE, duration |-> 0]

IdleReq ==
  [pc |-> "idle", probe |-> NoProbe, auth |-> "none", body |-> NoBody, noteId |-> 0,
   noteText |-> <<>>, subjectName |-> "", tempDir |-> 0, scenes |-> <<>>,
   i |-> 0, sceneAssets |-> <<>>, response |-> NoResponse,
   audioBuffer |-> NoBytes, imageBuffer |-> NoBytes, videoBuffer |-> NoBytes,
   err |-> NoError, url |-> NoUrl, http |-> NoHttp, outcome |-> "none", log |-> <<>>]

\* process.env as the module finds it: is each credential defined
Environments == [hfToken : BOOLEAN, elKey : BOOLEAN]

Init ==
  /\ variant \in {"agent", "axios", "note"}
  /\ \E env \in Environments :
       server = [state |-> "loading", hfToken |-> env.hfToken, elKey |-> env.elKey]
  /\ req = [r \in Reqs |-> IdleReq]
  /\ dirs = {}
  /\ files = [d \in DirIds |-> <<>>]
  /\ store = <<>>

Set(r, q) == req' = [req EXCEPT ![r] = q]

\* the configuration check at the top of the pipeline's module
CredentialsMissing(env) ==
  IF variant = "axios" THEN ~env.hfToken \/ ~env.elKey ELSE ~env.hfToken

\* the process starts: the pipeline's module is evaluated, and when that did
\* not throw the gateway goes on to app.listen
Start ==
  /\ server.state = "loading"
  /\ server' = [server EXCEPT !.state = IF CredentialsMissing(server) THEN "crashed"
                                        ELSE "listening"]
  /\ UNCHANGED <<variant, req, dirs, files, store>>

Logged(q, e) == [q EXCEPT !.log = Append(@, e)]

\* the token of the bytes a call is about to return: the call's place in the log
NextId(q) == Len(q.log) + 1

\* ---------------------------------------------------------- scene splitter
IsTerminator(c) == c \in Terminators

\* first index >= p of text holding a terminator, Len(text)+1 when none
RECURSIVE FirstTerminator(_, _)
FirstTerminator(text, p) ==
  IF p > Len(text) THEN p
  ELSE IF IsTerminator(text[p]) THEN p
  ELSE FirstTerminator(text, p + 1)

\* mutant: the match ends at the first terminator, as /[^.!?]+[.!?]/g would
LastTerminatorFirstOnly(text, p) == p

\* last index of the run of terminators that starts at p
RECURSIVE LastTerminator(_, _)
LastTerminator(text, p) ==
  IF p < Len(text) /\ IsTerminator(text[p + 1]) THEN LastTerminator(text, p + 1)
  ELSE p

\* noteText.match(/[^.!?]+[.!?]+/g) || [], scanning from index p
RECURSIVE MatchScenes(_, _)
MatchScenes(text, p) ==
  IF p > Len(text) THEN <<>>
  ELSE IF IsTerminator(text[p]) THEN MatchScenes(text, p + 1)
  ELSE LET e == FirstTerminator(text, p)
       IN  IF e > Len(text) THEN <<>>
           ELSE LET t == LastTerminator(text, e)
                IN  <<SubSeq(text, p, t)>> \o MatchScenes(text, t + 1)

SplitScenes(text) == MatchScenes(text, 1)

\* String.prototype.trim
RECURSIVE TrimLeft(_)
TrimLeft(s) ==
  IF s # <<>> /\ Head(s) \in Whitespace THEN TrimLeft(Tail(s)) ELSE s

RECURSIVE TrimRight(_)
TrimRight(s) ==
  IF s # <<>> /\ s[Len(s)] \in Whitespace THEN TrimRight(SubSeq(s, 1, Len(s) - 1)) ELSE s

Trim(s) == TrimRight(TrimLeft(s))

\* ----------------------------------------------------------------- gateway
ConfiguredSecret == "Bearer s3cret"      \* `Bearer ${process.env.WORKER_SECRET_KEY}`
AuthHeaders == {"", "s3cret", "Bearer other", "Bearer s3cret"}   \* "" : header absent

NoteIds ==
  {[t |-> "undef", v |-> 0], [t |-> "null", v |-> 0], [t |-> "num", v |-> 0], [t |-> "num", v |-> 1]}
NoteTextFields == {[t |-> "undef", v |-> <<>>]} \cup {[t |-> "str", v |-> s] : s \in NoteTexts}
SubjectNames == {[t |-> "undef", v |-> ""], [t |-> "str", v |-> ""], [t |-> "str", v |-> "Biology"]}

JsonBodies ==
  [kind : {"json"}, noteId : NoteIds, noteText : NoteTextFields, subjectName : SubjectNames]
Bodies ==
  JsonBodies \cup {[NoBody EXCEPT !.kind = k] : k \in {"malformed", "oversized"}}

\* JavaScript truthiness of the three body fields
TruthyId(f) == f.t = "num" /\ f.v # 0
TruthyText(f) == f.t = "str" /\ f.v # <<>>
TruthyName(f) == f.t = "str" /\ f.v # ""

Respond(q, status, url, error) ==
  Logged([q EXCEPT !.pc = "done",
                   !.http = [status |-> status, url |-> url, error |-> error]],
         Event("respond", -1, error, status, 0))

\* authHeader !== `Bearer ${process.env.WORKER_SECRET_KEY}`
IsAuthorized(header) == header = ConfiguredSecret

\* mutant: the check is for presence, `=== undefined`
MissingParametersByPresence(body) ==
  body.noteId.t = "undef" \/ body.noteText.t = "undef" \/ body.subjectName.t = "undef"

\* mutant: the check forgets noteText
MissingParametersButText(body) ==
  ~TruthyId(body.noteId) \/ ~TruthyName(body.subjectName)

\* !noteId || !noteText || !subjectName
MissingParameters(body) ==
  ~TruthyId(body.noteId) \/ ~TruthyText(body.noteText) \/ ~TruthyName(body.subjectName)

\* a POST /generate-video request arrives at the gateway
Receive(r) ==
  /\ server.state = "listening"
  /\ variant \in {"agent", "axios"}
  /\ req[r].pc = "idle"
  /\ \E h \in AuthHeaders, b \in Bodies :
       Set(r, [req[r] EXCEPT !.pc = "parsing", !.auth = h, !.body = b])
  /\ UNCHANGED <<server, variant, dirs, files, store>>

\* what express.json({ limit: '50mb' }) does with a request body
ParseBody(q) ==
  LET read == Logged(q, Event("readBody", -1, q.body.kind, 0, 0))
  IN  CASE q.body.kind = "malformed" -> Respond(read, BadRequest, NoUrl, "parse")
        [] q.body.kind = "oversized" -> Respond(read, PayloadTooLarge, NoUrl, "parse")
        [] OTHER -> [read EXCEPT !.pc = "handler"]

\* app.use(express.json(...)) runs before the route handler
JsonMiddleware(r) ==
  /\ req[r].pc = "parsing"
  /\ Set(r, ParseBody(req[r]))
  /\ UNCHANGED <<server, variant, dirs, files, store>>

\* the route handler up to its first await: the call of generateVideoAndUpload
\* has run to `await fs.mkdtemp(...)`
HandleRequest(q) ==
  IF ~IsAuthorized(q.auth) THEN Respond(q, Unauthorized, NoUrl, "Unauthorized")
  ELSE IF MissingParameters(q.body)
       THEN Respond(q, BadRequest, NoUrl, "Missing required parameters.")
       ELSE [q EXCEPT !.pc = "mkdtemp",
                      !.noteId = q.body.noteId.v,
                      !.noteText = q.body.noteText.v,
                      !.subjectName = q.body.subjectName.v]

Handler(r) ==
  /\ req[r].pc = "handler"
  /\ Set(r, HandleRequest(req[r]))
  /\ UNCHANGED <<server, variant, dirs, files, store>>

\* generateVideoFromNote(noteText, subjectName) is called directly
Call(r) ==
  /\ server.state = "listening"
  /\ variant = "note"
  /\ req[r].pc = "idle"
  /\ \E t \in NoteTexts, s \in {"", "Biology"} :
       Set(r, [req[r] EXCEPT !.pc = "mkdtemp", !.noteText = t, !.subjectName = s])
  /\ UNCHANGED <<server, variant, dirs, files, store>>

\* ---------------------------------------------------------------- pipeline
Bytes(id, len) == [kind |-> "bytes", id |-> id, len |-> len, lines |-> <<>>]
Lines(lines) == [kind |-> "list", id |-> 0, len |-> Len(lines), lines |-> lines]
NoPath == Path(0, FileName("", -1, ""))
FileLine(p) == [directive |-> "file", path |-> p, seconds |-> 0]
DurationLine(d) == [directive |-> "duration", path |-> NoPath, seconds |-> d]

\* mutant: one audio file name for every scene
AudioNameShared(i) == FileName("scene", 0, "mp3")

AudioName(i) == FileName("scene", i, "mp3")       \* `scene_${i}.mp3`
ImageName(i) == FileName("scene", i, "png")       \* `scene_${i}.png`
ImageListName == FileName("imagelist", -1, "txt")
AudioListName == FileName("audiolist", -1, "txt")
FinalVideoName == FileName("final_video", -1, "mp4")

\* path.resolve of a path under os.tmpdir(), which is absolute already
Resolve(p) == p

\* fs.writeFile(path, content): creates or replaces the file
WriteFile(fs, p, content) ==
  [fs EXCEPT ![p.dir] =
     [n \in (DOMAIN fs[p.dir]) \cup {p.name} |->
        IF n = p.name THEN content ELSE fs[p.dir][n]]]

\* mutant: the gateway answers 200 with the URL variable whatever happened
SettleAlwaysComplete(q) ==
  LET o == [q EXCEPT !.outcome = IF q.err.kind = "" THEN "returned" ELSE "thrown"]
  IN  IF variant = "note" THEN [o EXCEPT !.pc = "done"]
      ELSE Respond(o, Success, q.url, "")

\* the promise of the pipeline settles: the gateway answers, or the direct
\* caller sees the returned URL or the thrown error
Settle(q) ==
  LET o == [q EXCEPT !.outcome = IF q.err.kind = "" THEN "returned" ELSE "thrown"]
  IN  IF variant = "note" THEN [o EXCEPT !.pc = "done"]
      ELSE IF q.err.kind = "" THEN Respond(o, Success, q.url, "")
           ELSE Respond(o, ServerError, NoUrl, q.err.kind)

\* mutant: the removal sits at the end of the try block instead of in a finally
ThrowPastCleanup(q, e) == Settle([q EXCEPT !.err = e])

\* a throw inside the try block: control passes to the finally block
Throw(q, e) == [q EXCEPT !.pc = "cleanup", !.err = e]

\* mutant: the empty-scenes check is missing
EnterTryUnchecked(q) ==
  [q EXCEPT !.scenes = SplitScenes(q.noteText), !.i = 0, !.pc = "tts"]

\* first statements of the try block: split the note, start the scene loop
EnterTry(q) ==
  LET scenes == SplitScenes(q.noteText)
  IN  IF Len(scenes) = 0 THEN Throw(q, Err("EmptyInput"))
      ELSE [q EXCEPT !.scenes = scenes, !.i = 0, !.pc = "tts"]

\* mutant: a fixed directory name, made again by every run
FreshDirsFixedName(existing) == {1}

\* fs.mkdtemp appends six random characters until the name is unused
FreshDirs(existing) == DirIds \ existing

\* await fs.mkdtemp(path.join(os.tmpdir(), 'ai-video-')), before the try block
Mkdtemp(r) ==
  /\ req[r].pc = "mkdtemp"
  /\ \/ /\ \E d \in FreshDirs(dirs) :
             /\ dirs' = dirs \cup {d}
             /\ files' = [files EXCEPT ![d] = <<>>]
             /\ Set(r, EnterTry(Logged([req[r] EXCEPT !.tempDir = d],
                                       Event("mkdtemp", -1, "ok", 0, d))))
     \/ /\ Set(r, Settle(Logged([req[r] EXCEPT !.err = Err("Fs")],
                                Event("mkdtemp", -1, "fail", 0, 0))))
        /\ UNCHANGED <<dirs, files>>
  /\ UNCHANGED <<server, variant, store>>

TtsResults == {"ok", "empty", "401", "fail"}

\* a call made without an API key is refused by the service, or fails
TtsOutcomes(env) == IF env.elKey THEN TtsResults ELSE {"401", "fail"}

\* what the audio try/catch makes of the outcome of the text-to-speech call
AfterTts(q, res, id) ==
  CASE res = "ok" -> [q EXCEPT !.audioBuffer = Bytes(id, 1), !.pc = "writeAudio"]
    [] res = "empty" ->
         IF variant = "note"
         THEN [q EXCEPT !.audioBuffer = Bytes(id, 0), !.pc = "writeAudio"]
         ELSE Throw(q, Err("TtsCall"))
    [] res = "401" ->
         IF variant = "axios" THEN Throw(q, Err("TtsCall")) ELSE Throw(q, Err("TtsAuth"))
    [] OTHER -> Throw(q, Err("TtsCall"))

\* the text-to-speech call for scene i settles
Tts(r) ==
  /\ req[r].pc = "tts"
  /\ \E res \in TtsOutcomes(server) :
       Set(r, AfterTts(Logged(req[r], Event("tts", req[r].i, res, 0, NextId(req[r]))),
                       res, NextId(req[r])))
  /\ UNCHANGED <<server, variant, dirs, files, store>>

\* the axios version's catch block, entered with an error response, awaits
\* the 'end' event of the response's body and listens to nothing else: when
\* the body breaks off before its end the promise stays pending, and the
\* run with it (nothing is thrown, the finally block is not reached)
ErrorBodyNeverEnds(r) ==
  /\ variant = "axios"
  /\ req[r].pc = "tts"
  /\ Set(r, [req[r] EXCEPT !.pc = "hung"])
  /\ UNCHANGED <<server, variant, dirs, files, store>>

\* await fs.writeFile(audioPath, audioBuffer), inside the audio try/catch
WriteAudio(r) ==
  LET q == req[r]
      p == Path(q.tempDir, AudioName(q.i))
  IN  /\ q.pc = "writeAudio"
      /\ \/ /\ files' = WriteFile(files, p, q.audioBuffer)
            /\ Set(r, Logged([q EXCEPT !.pc = "img"], Event("writeAudio", q.i, "ok", 0, 0)))
         \/ /\ Set(r, Throw(Logged(q, Event("writeAudio", q.i, "fail", 0, 0)),
                            IF variant = "note" THEN Err("Fs") ELSE Err("TtsCall")))
            /\ UNCHANGED files
      /\ UNCHANGED <<server, variant, dirs, store>>

ImageStatuses == {Success, ServiceBusy, ServerError}

\* response.ok
IsOk(status) == status >= 200 /\ status <= 299

\* mutant: a failed image is skipped and the scene loop carries on
CheckResponseSkipScene(q) ==
  IF ~IsOk(q.response.status) THEN [q EXCEPT !.pc = "probe"]
  ELSE [q EXCEPT !.imageBuffer = Bytes(q.response.body, 1), !.pc = "writeImage"]

\* mutant: the retry is a loop, taken again on every 503
CheckResponseRetryAgain(q) ==
  IF q.response.status = ServiceBusy THEN [q EXCEPT !.pc = "wait"]
  ELSE IF ~IsOk(q.response.status)
  THEN Throw(q, [kind |-> "ImageCall", status |-> q.response.status, body |-> q.response.body])
  ELSE [q EXCEPT !.imageBuffer = Bytes(q.response.body, 1), !.pc = "writeImage"]

\* if (!response.ok) throw ...; imageBuffer = await response.buffer()
CheckResponse(q) ==
  IF ~IsOk(q.response.status)
  THEN Throw(q, [kind |-> "ImageCall", status |-> q.response.status, body |-> q.response.body])
  ELSE [q EXCEPT !.imageBuffer = Bytes(q.response.body, 1), !.pc = "writeImage"]

\* mutant: every failed first call is retried
ShouldRetryAnyFailure(status) == ~IsOk(status)

\* mutant: no retry at all
ShouldRetryNever(status) == FALSE

\* if (response.status === 503): wait, then fetch again
ShouldRetry(status) == status = ServiceBusy

AfterFirstFetch(q) ==
  IF ShouldRetry(q.response.status) THEN [q EXCEPT !.pc = "wait"] ELSE CheckResponse(q)

\* let response = await fetch(modelEndpoint, fetchOptions)
ImageCall(r) ==
  LET q == req[r]
  IN  /\ q.pc = "img"
      /\ \/ \E s \in ImageStatuses :
              Set(r, AfterFirstFetch(
                       Logged([q EXCEPT !.response = [status |-> s, body |-> NextId(q)]],
                              Event("img", q.i, "first", s, NextId(q)))))
         \/ Set(r, Throw(Logged(q, Event("img", q.i, "first", 0, 0)), Err("Fetch")))
      /\ UNCHANGED <<server, variant, dirs, files, store>>

\* await new Promise(resolve => setTimeout(resolve, 20000))
RetryWait(r) ==
  /\ req[r].pc = "wait"
  /\ Set(r, Logged([req[r] EXCEPT !.pc = "img2"],
                   Event("wait", req[r].i, "", RetryDelaySeconds, 0)))
  /\ UNCHANGED <<server, variant, dirs, files, store>>

\* response = await fetch(modelEndpoint, fetchOptions), the one retry
ImageRetry(r) ==
  LET q == req[r]
  IN  /\ q.pc = "img2"
      /\ \/ \E s \in ImageStatuses :
              Set(r, CheckResponse(
                       Logged([q EXCEPT !.response = [status |-> s, body |-> NextId(q)]],
                              Event("img", q.i, "second", s, NextId(q)))))
         \/ Set(r, Throw(Logged(q, Event("img", q.i, "second", 0, 0)), Err("Fetch")))
      /\ UNCHANGED <<server, variant, dirs, files, store>>

\* await fs.writeFile(imagePath, imageBuffer)
WriteImage(r) ==
  LET q == req[r]
      p == Path(q.tempDir, ImageName(q.i))
  IN  /\ q.pc = "writeImage"
      /\ \/ /\ files' = WriteFile(files, p, q.imageBuffer)
            /\ Set(r, Logged([q EXCEPT !.pc = "probe"], Event("writeImage", q.i, "ok", 0, 0)))
         \/ /\ Set(r, Throw(Logged(q, Event("writeImage", q.i, "fail", 0, 0)), Err("Fs")))
            /\ UNCHANGED files
      /\ UNCHANGED <<server, variant, dirs, store>>

\* ---------------------------------------------------------- duration probe
\* metadata.format.duration as fluent-ffmpeg reports it: absent, or a number
\* metadata.format.duration as fluent-ffmpeg hands it over: undefined, a
\* number, or the text ffprobe printed when it is no numeral ("N/A"), which
\* NotANumber stands for
ProbeMetadata ==
  {[present |-> FALSE, value |-> 0]} \cup {[present |-> TRUE, value |-> v] : v \in 0 .. MaxDur}
    \cup {[present |-> TRUE, value |-> NotANumber]}

\* resolve(metadata.format.duration || 0)
DurationOrZero(m) == IF m.present /\ m.value # 0 THEN m.value ELSE 0

DigitChars == <<"0", "1", "2", "3", "4", "5", "6", "7", "8", "9">>
IsDigit(c) == \E k \in 1 .. Len(DigitChars) : DigitChars[k] = c
DigitValue(c) == (CHOOSE k \in 1 .. Len(DigitChars) : DigitChars[k] = c) - 1

\* what ffprobe prints on stdout: nothing, N/A, or the duration and a newline
ProbeOutputs ==
  {<<>>, <<"N", "/", "A", "\n">>} \cup {<<DigitChars[v + 1], "\n">> : v \in 0 .. MaxDur}

\* the number a run of leading digits denotes, acc being the digits read so far
RECURSIVE LeadingDigits(_, _)
LeadingDigits(s, acc) ==
  IF s # <<>> /\ IsDigit(Head(s)) THEN LeadingDigits(Tail(s), 10 * acc + DigitValue(Head(s)))
  ELSE acc

\* parseFloat: NaN unless the text starts with a digit
ParseFloat(s) ==
  IF s # <<>> /\ IsDigit(Head(s)) THEN [nan |-> FALSE, value |-> LeadingDigits(s, 0)]
  ELSE [nan |-> TRUE, value |-> 0]

\* const duration = parseFloat(output.trim()); resolve(isNaN(duration) ? 0 : duration)
ParsedDuration(output) ==
  LET d == ParseFloat(Trim(output)) IN IF d.nan THEN 0 ELSE d.value

\* the zero-duration check of generateVideoFromNote; generateVideoAndUpload has none
RejectsDuration(duration) == variant = "note" /\ duration <= 0

\* mutant: after the last scene the encoder is run at once, no manifest written
RecordAssetNoManifests(q, duration) ==
  LET asset == [audioPath |-> Path(q.tempDir, AudioName(q.i)),
                imagePath |-> Path(q.tempDir, ImageName(q.i)),
                duration |-> duration]
      pushed == [q EXCEPT !.sceneAssets = Append(@, asset), !.i = q.i + 1]
  IN  IF RejectsDuration(duration) THEN Throw(q, Err("ZeroDuration"))
      ELSE IF q.i + 1 < Len(q.scenes) THEN [pushed EXCEPT !.pc = "tts"]
      ELSE [pushed EXCEPT !.pc = "encode"]

\* mutant: the loop index is not advanced
RecordAssetNoAdvance(q, duration) ==
  IF RejectsDuration(duration) THEN Throw(q, Err("ZeroDuration"))
  ELSE LET asset == [audioPath |-> Path(q.tempDir, AudioName(q.i)),
                     imagePath |-> Path(q.tempDir, ImageName(q.i)),
                     duration |-> duration]
           pushed == [q EXCEPT !.sceneAssets = Append(@, asset)]
       IN  IF Len(pushed.sceneAssets) < Len(q.scenes) THEN [pushed EXCEPT !.pc = "tts"]
           ELSE [pushed EXCEPT !.pc = "writeImageList"]

\* sceneAssets.push({ audioPath, imagePath, duration }) and the loop's i++
RecordAsset(q, duration) ==
  IF RejectsDuration(duration) THEN Throw(q, Err("ZeroDuration"))
  ELSE LET asset == [audioPath |-> Path(q.tempDir, AudioName(q.i)),
                     imagePath |-> Path(q.tempDir, ImageName(q.i)),
                     duration |-> duration]
           pushed == [q EXCEPT !.sceneAssets = Append(@, asset), !.i = q.i + 1]
       IN  IF q.i + 1 < Len(q.scenes) THEN [pushed EXCEPT !.pc = "tts"]
           ELSE [pushed EXCEPT !.pc = "writeImageList"]

\* const duration = await getAudioDuration(audioPath)
Probe(r) ==
  LET q == req[r]
  IN  /\ q.pc = "probe"
      /\ \/ Set(r, Throw(Logged(q, Event("probe", q.i, "fail", 0, 0)), Err("Probe")))
         \/ /\ variant # "note"
            /\ \E m \in ProbeMetadata :
                 Set(r, RecordAsset(Logged(q, Event("probe", q.i, "ok", DurationOrZero(m), 0)),
                                    DurationOrZero(m)))
         \/ /\ variant = "note"
            /\ \E out \in ProbeOutputs :
                 Set(r, RecordAsset(Logged(q, Event("probe", q.i, "ok", ParsedDuration(out), 0)),
                                    ParsedDuration(out)))
      /\ UNCHANGED <<server, variant, dirs, files, store>>

\* --------------------------------------------------------------- manifests
\* mutant: every entry carries the first scene's duration
ImageListContentFirstDuration(assets) ==
  Lines([k \in 1 .. 2 * Len(assets) |->
           IF k % 2 = 1 THEN FileLine(Resolve(assets[(k + 1) \div 2].imagePath))
           ELSE DurationLine(assets[1].duration)])

\* sceneAssets.map(a => `file '${path.resolve(a.imagePath)}'\nduration ${a.duration}`).join("\n")
ImageListContent(assets) ==
  Lines([k \in 1 .. 2 * Len(assets) |->
           IF k % 2 = 1 THEN FileLine(Resolve(assets[(k + 1) \div 2].imagePath))
           ELSE DurationLine(assets[k \div 2].duration)])

\* sceneAssets.map(a => `file '${path.resolve(a.audioPath)}'`).join("\n")
AudioListContent(assets) ==
  Lines([k \in 1 .. Len(assets) |-> FileLine(Resolve(assets[k].audioPath))])

\* await fs.writeFile(imageListPath, imageListContent)
WriteImageList(r) ==
  LET q == req[r]
  IN  /\ q.pc = "writeImageList"
      /\ \/ /\ files' = WriteFile(files, Path(q.tempDir, ImageListName),
                                  ImageListContent(q.sceneAssets))
            /\ Set(r, Logged([q EXCEPT !.pc = "writeAudioList"],
                             Event("writeImageList", -1, "ok", 0, 0)))
         \/ /\ Set(r, Throw(Logged(q, Event("writeImageList", -1, "fail", 0, 0)), Err("Fs")))
            /\ UNCHANGED files
      /\ UNCHANGED <<server, variant, dirs, store>>

\* await fs.writeFile(audioListPath, audioListContent)
WriteAudioList(r) ==
  LET q == req[r]
  IN  /\ q.pc = "writeAudioList"
      /\ \/ /\ files' = WriteFile(files, Path(q.tempDir, AudioListName),
                                  AudioListContent(q.sceneAssets))
            /\ Set(r, Logged([q EXCEPT !.pc = "encode"],
                             Event("writeAudioList", -1, "ok", 0, 0)))
         \/ /\ Set(r, Throw(Logged(q, Event("writeAudioList", -1, "fail", 0, 0)), Err("Fs")))
            /\ UNCHANGED files
      /\ UNCHANGED <<server, variant, dirs, store>>

\* ------------------------------------------------- encode, upload, cleanup
\* the ffmpeg run: 'end' resolves (the output file written), 'error' rejects
Encode(r) ==
  LET q == req[r]
  IN  /\ q.pc = "encode"
      /\ \/ \E len \in {0, 1} :
              /\ files' = WriteFile(files, Path(q.tempDir, FinalVideoName), Bytes(NextId(q), len))
              /\ Set(r, Logged([q EXCEPT !.pc = "readOutput"],
                               Event("encode", -1, "end", 0, NextId(q))))
         \/ /\ Set(r, Throw(Logged(q, Event("encode", -1, "error", 0, 0)), Err("Encoding")))
            /\ UNCHANGED files
      /\ UNCHANGED <<server, variant, dirs, store>>

\* mutant: the empty-output check is missing
CheckOutputUnchecked(q) == [q EXCEPT !.pc = "upload"]

\* if (videoBuffer.length === 0) throw ...; otherwise the upload is issued
CheckOutput(q) ==
  IF q.videoBuffer.len = 0 THEN Throw(q, Err("Encoding")) ELSE [q EXCEPT !.pc = "upload"]

\* const videoBuffer = await fs.readFile(finalVideoPath)
ReadOutput(r) ==
  LET q == req[r]
  IN  /\ q.pc = "readOutput"
      /\ Set(r, CheckOutput(Logged([q EXCEPT !.videoBuffer = files[q.tempDir][FinalVideoName]],
                                   Event("readOutput", -1, "ok", 0, 0))))
      /\ UNCHANGED <<server, variant, dirs, files, store>>

Timestamps == {1, 2}       \* values of Date.now()

\* `note-videos/${noteId}.mp4`, or `video_${Date.now()}.mp4` in generateVideoFromNote
UploadKey(q, now) ==
  IF variant = "note" THEN [prefix |-> "video_", id |-> now]
  ELSE [prefix |-> "note-videos", id |-> q.noteId]

\* storage.from('videos').getPublicUrl(filePath)
PublicUrl(key) == [bucket |-> "videos", key |-> key]

\* mutant: the upload is made without the upsert option
UpsertOptionOff == FALSE

\* { contentType: 'video/mp4', upsert: true }
UpsertOption == TRUE

\* mutant: an object already stored under the key is kept
UpsertKeepsFirst(bucket, key, object) ==
  [k \in (DOMAIN bucket) \cup {key} |-> IF k \in DOMAIN bucket THEN bucket[k] ELSE object]

Upsert(bucket, key, object) ==
  [k \in (DOMAIN bucket) \cup {key} |-> IF k = key THEN object ELSE bucket[k]]

\* the number of the next write the bucket takes
RECURSIVE Writes(_, _)
Writes(bucket, keys) ==
  IF keys = {} THEN 0
  ELSE LET k == CHOOSE x \in keys : TRUE
           rest == Writes(bucket, keys \ {k})
       IN  IF bucket[k].seq > rest THEN bucket[k].seq ELSE rest

\* storage.from('videos').upload(key, buffer, options): an object under an
\* existing key is replaced with upsert, refused as a duplicate without
StorageUpload(bucket, key, object, upsert) ==
  IF key \in DOMAIN bucket /\ ~upsert
  THEN [error |-> "exists", bucket |-> bucket]
  ELSE [error |-> "", bucket |-> Upsert(bucket, key, object)]

\* the upload settles; on success the public URL is returned from the try block
Upload(r) ==
  LET q == req[r]
  IN  /\ q.pc = "upload"
      /\ \/ \E now \in Timestamps :
              LET key == UploadKey(q, now)
                  seq == Writes(store, DOMAIN store) + 1
                  put == StorageUpload(store, key,
                                       [bytes |-> q.videoBuffer, by |-> r, seq |-> seq],
                                       UpsertOption)
              IN  /\ store' = put.bucket
                  /\ IF put.error = ""
                     THEN Set(r, Logged([q EXCEPT !.url = PublicUrl(key), !.pc = "cleanup"],
                                        Event("upload", -1, "ok", 0, seq)))
                     ELSE Set(r, Throw(Logged(q, Event("upload", -1, put.error, 0, 0)),
                                       Err("Storage")))
         \/ /\ Set(r, Throw(Logged(q, Event("upload", -1, "fail", 0, 0)), Err("Storage")))
            /\ UNCHANGED store
      /\ UNCHANGED <<server, variant, dirs, files>>

\* mutant: the promise settles without the directory having been removed
CleanupSkipped(r) ==
  /\ req[r].pc = "cleanup"
  /\ Set(r, Settle(req[r]))
  /\ UNCHANGED <<server, variant, dirs, files, store>>

\* finally { await fs.rm(tempDir, { recursive: true, force: true }) }, after
\* which the pipeline's promise settles
Cleanup(r) ==
  LET q == req[r]
  IN  /\ q.pc = "cleanup"
      /\ dirs' = dirs \ {q.tempDir}
      /\ files' = [files EXCEPT ![q.tempDir] = <<>>]
      /\ Set(r, Settle(Logged(q, Event("rm", -1, "ok", 0, q.tempDir))))
      /\ UNCHANGED <<server, variant, store>>

\* ----------------------------------------------------------- specification
Step(r) ==
  \/ Receive(r)
  \/ JsonMiddleware(r)
  \/ Handler(r)
  \/ Call(r)
  \/ Mkdtemp(r)
  \/ Tts(r)
  \/ ErrorBodyNeverEnds(r)
  \/ WriteAudio(r)
  \/ ImageCall(r)
  \/ RetryWait(r)
  \/ ImageRetry(r)
  \/ WriteImage(r)
  \/ Probe(r)
  \/ WriteImageList(r)
  \/ WriteAudioList(r)
  \/ Encode(r)
  \/ ReadOutput(r)
  \/ Upload(r)
  \/ Cleanup(r)

Next == Start \/ \E r \in Solo : Step(r)

Spec == Init /\ [][Next]_vars

\* every awaited call settles, and the event loop runs each continuation
\* that is ready: the process starts, and a request that can take a step
\* takes one
FairSpec == Spec /\ WF_vars(Start) /\ \A r \in Solo : WF_vars(Step(r))

\* ------------------------------------------------------ the splitter alone
\* note texts with whitespace and two of the terminators
SplitAlphabet == {"a", " ", ".", "!"}

RECURSIVE StringsOver(_, _)
StringsOver(alphabet, n) ==
  IF n = 0 THEN {<<>>}
  ELSE LET shorter == StringsOver(alphabet, n - 1)
       IN  shorter \cup {Append(s, c) : s \in {t \in shorter : Len(t) = n - 1}, c \in alphabet}

SplitTexts == StringsOver(SplitAlphabet, MaxLen)

SplitInit ==
  /\ variant = "agent"
  /\ server = [state |-> "listening", hfToken |-> TRUE, elKey |-> TRUE]
  /\ \E t \in SplitTexts :
       req = [r \in Reqs |-> IF r \in Solo THEN [IdleReq EXCEPT !.pc = "split", !.noteText = t]
                             ELSE IdleReq]
  /\ dirs = {}
  /\ files = [d \in DirIds |-> <<>>]
  /\ store = <<>>

\* const scenes = noteText.match(/[^.!?]+[.!?]+/g) || []
SplitNote(r) ==
  /\ req[r].pc = "split"
  /\ Set(r, [req[r] EXCEPT !.scenes = SplitScenes(req[r].noteText), !.pc = "splitDone"])
  /\ UNCHANGED <<server, variant, dirs, files, store>>

SplitNext == \E r \in Solo : SplitNote(r)

SplitSpec == SplitInit /\ [][SplitNext]_vars

\* -------------------------------------------------------- the prober alone
MaxOut == 3        \* longest standard output of ffprobe, in characters
ProbeAlphabet == {"0", "1", "N", "\n"}
ProbeStdouts == ProbeOutputs \cup StringsOver(ProbeAlphabet, MaxOut)
ExitCodes == {0, 1}

\* the runs of ffprobe a call of getAudioDuration can meet: the spawned
\* process with its output, or fluent-ffmpeg's callback with its metadata
ProbeRuns ==
  IF variant = "note"
  THEN {[NoProbe EXCEPT !.exit = e, !.out = o] : e \in ExitCodes, o \in ProbeStdouts}
  ELSE {[NoProbe EXCEPT !.exit = e, !.meta = m] : e \in ExitCodes, m \in ProbeMetadata}

ProbeInit ==
  /\ variant \in {"agent", "axios", "note"}
  /\ server = [state |-> "listening", hfToken |-> TRUE, elKey |-> TRUE]
  /\ \E run \in ProbeRuns :
       req = [r \in Reqs |-> IF r \in Solo THEN [IdleReq EXCEPT !.pc = "probing", !.probe = run]
                             ELSE IdleReq]
  /\ dirs = {}
  /\ files = [d \in DirIds |-> <<>>]
  /\ store = <<>>

\* getAudioDuration: reject on a nonzero exit (fluent-ffmpeg's err), else
\* resolve with the parsed output, or with metadata.format.duration || 0
SettleProbe(run) ==
  IF run.exit # 0 THEN [run EXCEPT !.failed = TRUE]
  ELSE [run EXCEPT !.duration = IF variant = "note" THEN ParsedDuration(run.out)
                                ELSE DurationOrZero(run.meta)]

GetAudioDuration(r) ==
  /\ req[r].pc = "probing"
  /\ Set(r, [req[r] EXCEPT !.probe = SettleProbe(req[r].probe), !.pc = "probed"])
  /\ UNCHANGED <<server, variant, dirs, files, store>>

ProbeNext == \E r \in Solo : GetAudioDuration(r)

ProbeSpec == ProbeInit /\ [][ProbeNext]_vars

\* -------------------------------------------- two requests at the gateway
\* generateVideoAndUpload in its SDK version, both credentials configured;
\* each request is authorized and complete, its note one sentence long. The
\* first request names note 1, the second the same note or another one.
PairNoteIds(r) == IF r = 1 THEN {1} ELSE {1, 2}
PairText == <<"a", ".">>

PairInit ==
  /\ variant = "agent"
  /\ server = [state |-> "loading", hfToken |-> TRUE, elKey |-> TRUE]
  /\ req = [r \in Reqs |-> IdleReq]
  /\ dirs = {}
  /\ files = [d \in DirIds |-> <<>>]
  /\ store = <<>>

ReceivePair(r) ==
  /\ server.state = "listening"
  /\ req[r].pc = "idle"
  /\ \E n \in PairNoteIds(r) :
       Set(r, [req[r] EXCEPT !.pc = "parsing", !.auth = ConfiguredSecret,
                 !.body = [kind |-> "json",
                           noteId |-> [t |-> "num", v |-> n],
                           noteText |-> [t |-> "str", v |-> PairText],
                           subjectName |-> [t |-> "str", v |-> "Biology"]]])
  /\ UNCHANGED <<server, variant, dirs, files, store>>

StepPair(r) ==
  \/ ReceivePair(r)
  \/ JsonMiddleware(r)
  \/ Handler(r)
  \/ Mkdtemp(r)
  \/ Tts(r)
  \/ WriteAudio(r)
  \/ ImageCall(r)
  \/ RetryWait(r)
  \/ ImageRetry(r)
  \/ WriteImage(r)
  \/ Probe(r)
  \/ WriteImageList(r)
  \/ WriteAudioList(r)
  \/ Encode(r)
  \/ ReadOutput(r)
  \/ Upload(r)
  \/ Cleanup(r)

NextPair == Start \/ \E r \in Reqs : StepPair(r)

SpecPair == PairInit /\ [][NextPair]_vars

\* ------------------------------------------------------------------ claims
Events(q, ops) == {k \in 1 .. Len(q.log) : q.log[k].op \in ops}
EventsOk(q, op, res) == {k \in 1 .. Len(q.log) : q.log[k].op = op /\ q.log[k].res = res}
SceneEvents(q, op, s) == {k \in 1 .. Len(q.log) : q.log[k].op = op /\ q.log[k].scene = s}

\* C1: a run that created its temporary directory and has ended, with a URL
\* or with an error from any step, has removed the directory and all in it.
C1_TempDirRemovedAtEnd ==
  \A r \in Reqs :
    (req[r].pc = "done" /\ req[r].tempDir # 0) =>
      (req[r].tempDir \notin dirs /\ DOMAIN files[req[r].tempDir] = {})

\* a run whose speech synthesis failed has ended, its directory gone
C1_Witness ==
  \E r \in Reqs :
    /\ req[r].pc = "done" /\ req[r].tempDir # 0
    /\ req[r].err.kind \in {"TtsCall", "TtsAuth"}
    /\ EventsOk(req[r], "mkdtemp", "ok") # {}
    /\ req[r].tempDir \notin dirs

\* a step of the scene loop that failed: the speech call, the image call
\* (other than a first 503, which is retried) or the probe
StepFailed(e) ==
  \/ e.op = "tts" /\ (e.res \in {"401", "fail"} \/ (e.res = "empty" /\ variant # "note"))
  \/ e.op = "img" /\ ~IsOk(e.status) /\ ~(e.res = "first" /\ e.status = ServiceBusy)
  \/ e.op = "probe" /\ e.res = "fail"

\* C2: once a step has failed for scene i, nothing but the cleanup and the
\* answer follows: no later synthesizer or prober call, no asset record for
\* scene i, no manifest, no encoder run, no upload, and the run ends in failure.
C2_AbortOnSceneFailure ==
  \A r \in Reqs :
    LET q == req[r]
    IN  \A k \in 1 .. Len(q.log) :
          StepFailed(q.log[k]) =>
            /\ \A j \in (k + 1) .. Len(q.log) : q.log[j].op \in {"rm", "respond"}
            /\ q.pc \in {"cleanup", "done"}
            /\ q.err.kind # ""
            /\ Len(q.sceneAssets) = q.log[k].scene
            /\ Events(q, {"writeImageList", "writeAudioList", "encode", "upload"}) = {}
            /\ q.pc = "done" =>
                 /\ q.outcome = "thrown"
                 /\ variant # "note" => q.http.status = ServerError

\* the image call of the second scene failed and the run has ended
C2_Witness ==
  \E r \in Reqs :
    /\ req[r].pc = "done"
    /\ \E k \in 1 .. Len(req[r].log) :
         /\ StepFailed(req[r].log[k])
         /\ req[r].log[k].op = "img"
         /\ req[r].log[k].scene = 1

\* all scenes recorded, both manifests written, the encoder ended, the output
\* read and found non-empty, in that order
BuiltBeforeUpload(q) ==
  /\ Len(q.scenes) >= 1
  /\ Len(q.sceneAssets) = Len(q.scenes)
  /\ \A s \in 0 .. (Len(q.scenes) - 1) : SceneEvents(q, "probe", s) \cap EventsOk(q, "probe", "ok") # {}
  /\ \E k1 \in EventsOk(q, "writeImageList", "ok"), k2 \in EventsOk(q, "writeAudioList", "ok"),
        k3 \in EventsOk(q, "encode", "end"), k4 \in EventsOk(q, "readOutput", "ok") :
        /\ k1 < k2 /\ k2 < k3 /\ k3 < k4
        /\ \A u \in Events(q, {"upload"}) : k4 < u
  /\ q.videoBuffer.len > 0

\* C3: the upload is issued at most once per request, and only after the
\* whole video is built; the bucket holds nothing no successful upload put there.
C3_UploadOnlyAfterBuild ==
  /\ \A r \in Reqs :
       LET q == req[r]
       IN  /\ Cardinality(Events(q, {"upload"})) <= 1
           /\ q.pc = "upload" => Events(q, {"upload"}) = {}
           /\ (q.pc = "upload" \/ Events(q, {"upload"}) # {}) => BuiltBeforeUpload(q)
  /\ \A key \in DOMAIN store :
       /\ EventsOk(req[store[key].by], "upload", "ok") # {}
       /\ store[key].bytes = req[store[key].by].videoBuffer

\* a run has uploaded its video and ended
C3_Witness ==
  \E r \in Reqs :
    /\ req[r].pc = "done"
    /\ EventsOk(req[r], "upload", "ok") # {}
    /\ DOMAIN store # {}

\* the duration the probe reported for scene s
ProbedDuration(q, s) == q.log[CHOOSE k \in SceneEvents(q, "probe", s) : TRUE].status

\* C4: a written image list holds N file/duration pairs and a written audio
\* list N file lines, the k-th naming the k-th scene's image, that scene's
\* probed duration, and the k-th scene's audio.
C4_ManifestsMatchScenes ==
  \A r \in Reqs :
    LET q == req[r]
        d == q.tempDir
        N == Len(q.scenes)
    IN  (d # 0 /\ d \in dirs) =>
          /\ ImageListName \in DOMAIN files[d] =>
               LET L == files[d][ImageListName].lines
               IN  /\ Len(L) = 2 * N
                   /\ \A k \in 1 .. N :
                        /\ L[2 * k - 1] = FileLine(Path(d, ImageName(k - 1)))
                        /\ L[2 * k] = DurationLine(ProbedDuration(q, k - 1))
          /\ AudioListName \in DOMAIN files[d] =>
               LET L == files[d][AudioListName].lines
               IN  /\ Len(L) = N
                   /\ \A k \in 1 .. N : L[k] = FileLine(Path(d, AudioName(k - 1)))

\* both manifests of a two-scene run are on disk, the scenes' durations differing
C4_Witness ==
  \E r \in Reqs :
    LET q == req[r]
    IN  /\ q.tempDir \in dirs
        /\ Len(q.scenes) = 2
        /\ {ImageListName, AudioListName} \subseteq DOMAIN files[q.tempDir]
        /\ q.sceneAssets[1].duration # q.sceneAssets[2].duration

SceneOps == {"tts", "writeAudio", "img", "wait", "writeImage", "probe"}

\* f is the operation the scene loop runs right after e has completed
Follows(e, f) ==
  \/ e.op = "tts" /\ f.op = "writeAudio" /\ f.scene = e.scene
  \/ e.op = "writeAudio" /\ e.res = "ok" /\ f.op = "img" /\ f.res = "first" /\ f.scene = e.scene
  \/ e.op = "img" /\ e.res = "first" /\ e.status = ServiceBusy /\ f.op = "wait" /\ f.scene = e.scene
  \/ e.op = "wait" /\ f.op = "img" /\ f.res = "second" /\ f.scene = e.scene
  \/ e.op = "img" /\ IsOk(e.status) /\ f.op = "writeImage" /\ f.scene = e.scene
  \/ e.op = "writeImage" /\ e.res = "ok" /\ f.op = "probe" /\ f.scene = e.scene
  \/ e.op = "probe" /\ e.res = "ok" /\ f.op = "tts" /\ f.scene = e.scene + 1

\* C5: the operations of a run come one at a time and in order: speech, image
\* (with its retry), probe for scene i, each completed before the next, and
\* scene i+1 only after scene i's probe completed and its record was appended.
C5_ScenesSequential ==
  \A r \in Reqs :
    LET q == req[r]
    IN  /\ \A k \in Events(q, SceneOps) :
             IF k > 1 /\ q.log[k - 1].op \in SceneOps
             THEN Follows(q.log[k - 1], q.log[k])
             ELSE q.log[k].op = "tts" /\ q.log[k].scene = 0
        /\ \A k \in Events(q, {"tts"}) : Len(q.sceneAssets) >= q.log[k].scene
        /\ q.pc \in {"tts", "writeAudio", "img", "wait", "img2", "writeImage", "probe"} =>
             Len(q.sceneAssets) = q.i
        /\ \A s \in 0 .. MaxLen : Cardinality(SceneEvents(q, "tts", s)) <= 1
        /\ \A s \in 0 .. MaxLen : Cardinality(SceneEvents(q, "probe", s)) <= 1

\* the second scene's probe has completed, its image having needed the retry
C5_Witness ==
  \E r \in Reqs :
    /\ SceneEvents(req[r], "probe", 1) # {}
    /\ SceneEvents(req[r], "wait", 1) # {}
    /\ Len(req[r].sceneAssets) = 2

\* the first image call of a scene answered 503
FirstBusy(q, k) ==
  q.log[k].op = "img" /\ q.log[k].res = "first" /\ q.log[k].status = ServiceBusy

\* ... and the second call, two events later, answered with status st
SecondAnswered(q, k, st) ==
  /\ FirstBusy(q, k)
  /\ k + 2 <= Len(q.log)
  /\ q.log[k + 2].op = "img" /\ q.log[k + 2].res = "second" /\ q.log[k + 2].status = st

\* C6: a first 503 is followed by one 20-second wait and then the second
\* call; when that answers 200 the scene has had exactly two calls and one
\* wait, the second response's bytes become the scene's image file, and the
\* run goes on to the probe without an image error.
C6_RetryOnceThenProceed ==
  \A r \in Reqs :
    LET q == req[r]
    IN  \A k \in 1 .. Len(q.log) :
          FirstBusy(q, k) =>
            LET s == q.log[k].scene
            IN  /\ k + 1 <= Len(q.log) =>
                     q.log[k + 1] = Event("wait", s, "", RetryDelaySeconds, 0)
                /\ k + 2 <= Len(q.log) =>
                     q.log[k + 2].op = "img" /\ q.log[k + 2].res = "second" /\ q.log[k + 2].scene = s
                /\ SecondAnswered(q, k, Success) =>
                     /\ Cardinality(SceneEvents(q, "img", s)) = 2
                     /\ Cardinality(SceneEvents(q, "wait", s)) = 1
                     /\ q.err.kind \in {"ImageCall", "Fetch"} => q.i > s
                     /\ Len(q.log) = k + 2 =>
                          q.pc = "writeImage" /\ q.imageBuffer = Bytes(q.log[k + 2].body, 1)
                     /\ k + 3 <= Len(q.log) => q.log[k + 3].op = "writeImage"
                     /\ (k + 3 <= Len(q.log) /\ q.log[k + 3].res = "ok") =>
                          /\ q.tempDir \in dirs =>
                               files[q.tempDir][ImageName(s)] = Bytes(q.log[k + 2].body, 1)
                          /\ Len(q.log) = k + 3 => q.pc = "probe"
                          /\ k + 4 <= Len(q.log) => q.log[k + 4].op = "probe"

\* a run whose image call answered 503 and then 200 has ended in success
C6_Witness ==
  \E r \in Reqs :
    /\ req[r].pc = "done" /\ req[r].outcome = "returned"
    /\ \E k \in 1 .. Len(req[r].log) : SecondAnswered(req[r], k, Success)

\* C7: when the second call answers 503 too, the image step fails with an
\* ImageCallError carrying the second response's status and body, no third
\* call is made for the scene, and the run aborts.
C7_SecondBusyIsTerminal ==
  \A r \in Reqs :
    LET q == req[r]
    IN  \A k \in 1 .. Len(q.log) :
          SecondAnswered(q, k, ServiceBusy) =>
            /\ q.err = [kind |-> "ImageCall", status |-> ServiceBusy, body |-> q.log[k + 2].body]
            /\ q.log[k + 2].body # q.log[k].body
            /\ Cardinality(SceneEvents(q, "img", q.log[k].scene)) = 2
            /\ \A j \in (k + 3) .. Len(q.log) : q.log[j].op \in {"rm", "respond"}
            /\ q.pc \in {"cleanup", "done"}
            /\ q.pc = "done" => q.outcome = "thrown"

\* a run has ended after two 503 answers for one scene
C7_Witness ==
  \E r \in Reqs :
    /\ req[r].pc = "done"
    /\ \E k \in 1 .. Len(req[r].log) : SecondAnswered(req[r], k, ServiceBusy)

NoTerminator(text) == \A k \in 1 .. Len(text) : ~IsTerminator(text[k])

\* the calls the pipeline makes once its directory exists
WorkOps ==
  SceneOps \cup {"writeImageList", "writeAudioList", "encode", "readOutput", "upload"}

\* C8 as stated: for a text without a sentence terminator the error is raised
\* with no temporary directory created and no call made.
C8_NoDirectoryOnEmptyInput ==
  \A r \in Reqs :
    LET q == req[r]
    IN  (NoTerminator(q.noteText) /\ q.err.kind = "EmptyInput") =>
          /\ q.tempDir = 0
          /\ Events(q, WorkOps \cup {"mkdtemp"}) = {}

\* C8 as amended: for a text without a sentence terminator, a run that got its
\* temporary directory fails with EmptyInputError before writing anything
\* into it and before any synthesizer, prober, encoder or storage call; the
\* directory exists, empty, when the error is raised and is gone at the end.
C8_EmptyInputFailsBeforeCalls ==
  \A r \in Reqs :
    LET q == req[r]
    IN  (NoTerminator(q.noteText) /\ q.tempDir # 0) =>
          /\ q.err.kind = "EmptyInput"
          /\ Events(q, WorkOps) = {}
          /\ DOMAIN store = {}
          /\ q.pc \in {"cleanup", "done"}
          /\ q.pc = "cleanup" => (q.tempDir \in dirs /\ DOMAIN files[q.tempDir] = {})
          /\ q.pc = "done" => (q.tempDir \notin dirs /\ q.outcome = "thrown")

\* the error has been raised for a non-empty text without a terminator
C8_Witness ==
  \E r \in Reqs :
    /\ req[r].pc = "cleanup"
    /\ req[r].err.kind = "EmptyInput"
    /\ req[r].noteText # <<>>
    /\ NoTerminator(req[r].noteText)
    /\ req[r].tempDir \in dirs

\* a request that came through the gateway and was not authorized
Unauthorised(q) == variant # "note" /\ q.pc # "idle" /\ ~IsAuthorized(q.auth)

\* C9 as stated: every answered request whose Authorization header is absent or
\* wrong got 401, and nothing was done for it beyond the answer.
C9_UnauthorizedAnswered401 ==
  \A r \in Reqs :
    (Unauthorised(req[r]) /\ req[r].pc = "done") =>
      /\ req[r].http.status = Unauthorized
      /\ req[r].tempDir = 0
      /\ Events(req[r], WorkOps \cup {"mkdtemp"}) = {}

\* what the route handler by itself guarantees: an unauthorized request that
\* reaches it is answered 401 whatever its fields, and no pipeline is started
HandlerRejectsUnauthorized ==
  \A r \in Reqs :
    LET q == req[r]
    IN  (Unauthorised(q) /\ q.body.kind = "json" /\ q.pc = "done") =>
          /\ q.http.status = Unauthorized
          /\ q.tempDir = 0
          /\ Events(q, WorkOps \cup {"mkdtemp"}) = {}

\* C10 as stated: the body of an unauthorized request is never read, and its
\* answer is 401 whatever the body holds.
C10_UnauthorizedBodyNotRead ==
  \A r \in Reqs :
    Unauthorised(req[r]) =>
      /\ Events(req[r], {"readBody"}) = {}
      /\ req[r].pc = "done" => req[r].http.status = Unauthorized

\* a request the gateway authenticated
Authenticated(q) == variant # "note" /\ q.pc # "idle" /\ IsAuthorized(q.auth)

\* one of the three fields is absent from the parsed body
FieldAbsent(body) ==
  body.kind = "json" /\
    (body.noteId.t = "undef" \/ body.noteText.t = "undef" \/ body.subjectName.t = "undef")

\* C11: an authenticated request whose body lacks noteId, noteText or
\* subjectName is answered 400, and nothing of the pipeline runs for it: no
\* temporary directory, no synthesizer, prober, encoder or storage call.
C11_MissingFieldIs400 ==
  \A r \in Reqs :
    LET q == req[r]
    IN  (Authenticated(q) /\ FieldAbsent(q.body)) =>
          /\ q.pc \in {"parsing", "handler", "done"}
          /\ q.tempDir = 0
          /\ Events(q, WorkOps \cup {"mkdtemp"}) = {}
          /\ q.pc = "done" => (q.http.status = BadRequest /\ q.http.url = NoUrl)

\* an authenticated request with noteId and subjectName but no noteText got 400
C11_Witness ==
  \E r \in Reqs :
    LET q == req[r]
    IN  /\ Authenticated(q) /\ q.pc = "done"
        /\ q.body.kind = "json"
        /\ q.body.noteText.t = "undef"
        /\ TruthyId(q.body.noteId) /\ TruthyName(q.body.subjectName)
        /\ q.http.status = BadRequest

\* a request the gateway authenticated and whose three fields passed the check
WellFormed(q) == Authenticated(q) /\ q.body.kind = "json" /\ ~MissingParameters(q.body)

\* C12: an authenticated, well-formed request is answered once: 200 with the
\* published URL exactly when the pipeline and the upload completed without
\* error, otherwise 500 with the error's message and no URL.
C12_OneResponse200Or500 ==
  \A r \in Reqs :
    LET q == req[r]
        completed == q.err.kind = "" /\ EventsOk(q, "upload", "ok") # {}
    IN  WellFormed(q) =>
          /\ Cardinality(Events(q, {"respond"})) = (IF q.pc = "done" THEN 1 ELSE 0)
          /\ q.pc # "done" => q.http = NoHttp
          /\ q.pc = "done" =>
               /\ q.http.status \in {Success, ServerError}
               /\ q.http.status = Success <=> completed
               /\ q.http.status = Success =>
                    q.http.url = PublicUrl([prefix |-> "note-videos", id |-> q.noteId])
               /\ q.http.status = ServerError =>
                    /\ q.http.url = NoUrl
                    /\ q.err.kind # ""
                    /\ q.http.error = q.err.kind

\* a well-formed request was answered 500 after its video had been encoded
C12_Witness ==
  \E r \in Reqs :
    /\ WellFormed(req[r]) /\ req[r].pc = "done"
    /\ req[r].http.status = ServerError
    /\ EventsOk(req[r], "upload", "fail") # {}

\* the first image call of a scene answered with a failure other than 503
FirstRefused(q, k) ==
  /\ q.log[k].op = "img" /\ q.log[k].res = "first"
  /\ ~IsOk(q.log[k].status) /\ q.log[k].status # ServiceBusy /\ q.log[k].status # 0

\* the image step of scene s is over: the run is past both calls
ImageStepOver(q, s) ==
  q.i > s \/ q.pc \notin {"tts", "writeAudio", "img", "wait", "img2"}

\* C19: a first image call answered with a failure status other than 503 is
\* terminal at once: one call for the scene, no wait, an ImageCallError with
\* that response's status and body. A scene has one image call unless the
\* first answered 503, and then, once its image step is over, exactly two.
C19_OnlyBusyIsRetried ==
  \A r \in Reqs :
    LET q == req[r]
    IN  /\ \A k \in 1 .. Len(q.log) :
             FirstRefused(q, k) =>
               /\ SceneEvents(q, "img", q.log[k].scene) = {k}
               /\ SceneEvents(q, "wait", q.log[k].scene) = {}
               /\ q.err = [kind |-> "ImageCall", status |-> q.log[k].status,
                           body |-> q.log[k].body]
               /\ \A j \in (k + 1) .. Len(q.log) : q.log[j].op \in {"rm", "respond"}
               /\ q.pc \in {"cleanup", "done"}
        /\ \A s \in 0 .. MaxLen :
             LET calls == SceneEvents(q, "img", s)
                 first == {k \in calls : q.log[k].res = "first"}
             IN  calls # {} =>
                   /\ Cardinality(first) = 1
                   /\ \A k \in first :
                        IF q.log[k].status = ServiceBusy
                        THEN /\ Cardinality(calls) <= 2
                             /\ ImageStepOver(q, s) => Cardinality(calls) = 2
                        ELSE Cardinality(calls) = 1

\* a run has ended on a first image call answered 500, and an earlier scene
\* of the same run needed the retry
C19_Witness ==
  \E r \in Reqs :
    LET q == req[r]
    IN  /\ q.pc = "done"
        /\ \E k \in 1 .. Len(q.log) : FirstRefused(q, k) /\ q.log[k].scene = 1
        /\ Cardinality(SceneEvents(q, "img", 0)) = 2

\* C15: a text-to-speech call that returned no bytes is an error of the run:
\* no audio file is written for the scene, no image call is made for it, and
\* only cleanup and the answer follow.
C15_EmptySpeechRejected ==
  \A r \in Reqs :
    LET q == req[r]
    IN  \A k \in EventsOk(q, "tts", "empty") :
          /\ q.err.kind # ""
          /\ q.pc \in {"cleanup", "done"}
          /\ SceneEvents(q, "writeAudio", q.log[k].scene) = {}
          /\ SceneEvents(q, "img", q.log[k].scene) = {}
          /\ \A j \in (k + 1) .. Len(q.log) : q.log[j].op \in {"rm", "respond"}

\* the durations written to the image list of a run's directory
ManifestDurations(q) ==
  IF q.tempDir \in dirs /\ ImageListName \in DOMAIN files[q.tempDir]
  THEN LET lines == files[q.tempDir][ImageListName].lines
       IN  {lines[k].seconds : k \in {j \in 1 .. Len(lines) : lines[j].directive = "duration"}}
  ELSE {}

\* C16: every duration written to the image-list manifest is strictly
\* positive: a scene whose probed duration is zero or unparsable ends the run
\* before its asset record is appended.
C16_ManifestDurationsPositive ==
  \A r \in Reqs :
    LET q == req[r]
    IN  /\ \A d \in ManifestDurations(q) : d > 0
        /\ \A k \in 1 .. Len(q.sceneAssets) : q.sceneAssets[k].duration > 0
        /\ \A k \in EventsOk(q, "probe", "ok") :
             q.log[k].status <= 0 => q.pc \in {"cleanup", "done"} /\ q.err.kind # ""

\* C18: with either credential absent from the environment the start-up
\* check throws: the server never listens and no request is ever taken.
C18_StartFatalWithoutCredential ==
  (~server.hfToken \/ ~server.elKey) =>
    /\ server.state # "listening"
    /\ \A r \in Reqs : req[r].pc = "idle"

\* C20: a scene has at most one text-to-speech call, and a failed call ends
\* the run: with the authentication error when the service answered 401,
\* with the call error for every other failure, an empty stream included.
C20_SpeechFailureClassified ==
  \A r \in Reqs :
    LET q == req[r]
    IN  /\ \A s \in 0 .. MaxLen : Cardinality(SceneEvents(q, "tts", s)) <= 1
        /\ \A k \in Events(q, {"tts"}) :
             q.log[k].res # "ok" =>
               /\ q.err.kind = (IF q.log[k].res = "401" THEN "TtsAuth" ELSE "TtsCall")
               /\ q.pc \in {"cleanup", "done"}
               /\ \A j \in (k + 1) .. Len(q.log) : q.log[j].op \in {"rm", "respond"}

\* what holds of C20 in every pipeline: no scene has a second call, and a
\* call that threw (401 or any other failure) is followed by cleanup only
SpeechNeverRetried ==
  \A r \in Reqs :
    LET q == req[r]
    IN  /\ \A s \in 0 .. MaxLen : Cardinality(SceneEvents(q, "tts", s)) <= 1
        /\ \A k \in Events(q, {"tts"}) :
             q.log[k].res \in {"401", "fail"} =>
               /\ q.err.kind \in {"TtsAuth", "TtsCall"}
               /\ \A j \in (k + 1) .. Len(q.log) : q.log[j].op \in {"rm", "respond"}

\* the request's upload was accepted by the storage service
Published(q) == EventsOk(q, "upload", "ok") # {}

\* the place of the request's accepted upload among the writes of the bucket
PublishedAt(q) == q.log[CHOOSE k \in EventsOk(q, "upload", "ok") : TRUE].body

NoteKey(q) == [prefix |-> "note-videos", id |-> q.noteId]

\* C13: publishing overwrites by note id. No upload is refused because the
\* object exists; a published request's URL is that of note-videos/<noteId>.mp4;
\* two published requests with the same noteId have the same URL, and the
\* object under their key holds the bytes of the one that uploaded last.
C13_PublishOverwritesByNoteId ==
  /\ \A r \in Reqs : EventsOk(req[r], "upload", "exists") = {}
  /\ \A r \in Reqs :
       Published(req[r]) =>
         /\ req[r].url = PublicUrl(NoteKey(req[r]))
         /\ NoteKey(req[r]) \in DOMAIN store
         /\ req[r].pc = "done" =>
              req[r].http.status = Success /\ req[r].http.url = req[r].url
  /\ \A r1, r2 \in Reqs :
       (r1 # r2 /\ Published(req[r1]) /\ Published(req[r2])
          /\ req[r1].noteId = req[r2].noteId
          /\ PublishedAt(req[r1]) < PublishedAt(req[r2])) =>
         /\ req[r1].url = req[r2].url
         /\ DOMAIN store = {NoteKey(req[r2])}
         /\ store[NoteKey(req[r2])] =
              [bytes |-> req[r2].videoBuffer, by |-> r2, seq |-> PublishedAt(req[r2])]

\* two requests for the same note were both answered 200 with the same URL;
\* the first's upload was accepted before the second's, and the object is
\* the second's
C13_Witness ==
  /\ \A r \in Reqs : req[r].pc = "done" /\ req[r].http.status = Success
  /\ req[1].noteId = req[2].noteId
  /\ req[1].http.url = req[2].http.url
  /\ PublishedAt(req[1]) = 1 /\ PublishedAt(req[2]) = 2
  /\ store[NoteKey(req[2])].by = 2

\* the request holds a temporary directory: created, and not yet removed
InFlight(q) ==
  q.tempDir # 0 /\ q.pc \notin {"idle", "parsing", "handler", "mkdtemp", "done"}

\* the names of the files the request's own writes have put in its directory
OwnFiles(q) ==
  {AudioName(q.log[k].scene) : k \in EventsOk(q, "writeAudio", "ok")}
    \cup {ImageName(q.log[k].scene) : k \in EventsOk(q, "writeImage", "ok")}
    \cup {ImageListName : k \in EventsOk(q, "writeImageList", "ok")}
    \cup {AudioListName : k \in EventsOk(q, "writeAudioList", "ok")}
    \cup {FinalVideoName : k \in EventsOk(q, "encode", "end")}

\* the files the request's next step reads
NeededFiles(q) ==
  CASE q.pc = "probe" -> {AudioName(q.i)}
    [] q.pc = "encode" ->
         {ImageListName, AudioListName}
           \cup {AudioName(s) : s \in 0 .. (Len(q.sceneAssets) - 1)}
           \cup {ImageName(s) : s \in 0 .. (Len(q.sceneAssets) - 1)}
    [] q.pc = "readOutput" -> {FinalVideoName}
    [] OTHER -> {}

\* the directories the paths of a manifest point into
ManifestDirs(content) ==
  {content.lines[k].path.dir :
     k \in {j \in 1 .. Len(content.lines) : content.lines[j].directive = "file"}}

\* C17: requests in flight at the same time hold different temporary
\* directories; the directory of a request in flight exists and holds exactly
\* the files that request wrote, with the bytes its own calls returned; its
\* manifests name files of its own directory only; and the files its next
\* step reads are there, whatever the other request has cleaned up.
C17_TempDirsIsolated ==
  /\ \A r1, r2 \in Reqs :
       (r1 # r2 /\ InFlight(req[r1]) /\ InFlight(req[r2])) =>
         req[r1].tempDir # req[r2].tempDir
  /\ \A r \in Reqs :
       LET q == req[r]
           d == q.tempDir
       IN  InFlight(q) =>
             /\ d \in dirs
             /\ DOMAIN files[d] = OwnFiles(q)
             /\ NeededFiles(q) \subseteq DOMAIN files[d]
             /\ \A k \in EventsOk(q, "writeAudio", "ok") :
                  files[d][AudioName(q.log[k].scene)].id = q.log[k - 1].body
             /\ \A n \in {ImageListName, AudioListName} \cap DOMAIN files[d] :
                  ManifestDirs(files[d][n]) = {d}
             /\ q.pc = "upload" => q.videoBuffer = files[d][FinalVideoName]
  /\ dirs = {req[r].tempDir : r \in {x \in Reqs : InFlight(req[x])}}

\* one request is about to run the encoder on its files while the other,
\* which started later in another directory, has already cleaned up
C17_Witness ==
  \E r1, r2 \in Reqs :
    /\ r1 # r2
    /\ req[r1].pc = "encode" /\ req[r2].pc = "done"
    /\ req[r2].tempDir # 0 /\ req[r2].tempDir # req[r1].tempDir
    /\ EventsOk(req[r2], "rm", "ok") # {}
    /\ NeededFiles(req[r1]) \subseteq DOMAIN files[req[r1].tempDir]

HasTerminator(text) == \E k \in 1 .. Len(text) : IsTerminator(text[k])

\* some character that is no terminator is directly followed by one
HasSentence(text) ==
  \E k \in 1 .. (Len(text) - 1) : ~IsTerminator(text[k]) /\ IsTerminator(text[k + 1])

\* the text from its first character that is no terminator through its last
\* terminator
SentenceContent(text) ==
  IF ~HasSentence(text) THEN <<>>
  ELSE LET first == CHOOSE k \in 1 .. Len(text) :
                      ~IsTerminator(text[k]) /\ \A j \in 1 .. (k - 1) : IsTerminator(text[j])
           last == CHOOSE k \in 1 .. Len(text) :
                     IsTerminator(text[k]) /\ \A j \in (k + 1) .. Len(text) : ~IsTerminator(text[j])
       IN  SubSeq(text, first, last)

RECURSIVE Concat(_)
Concat(seqs) == IF seqs = <<>> THEN <<>> ELSE Head(seqs) \o Concat(Tail(seqs))

\* one or more characters that are no terminators, then one or more terminators
IsSentence(s) ==
  \E m \in 1 .. (Len(s) - 1) :
    /\ \A k \in 1 .. m : ~IsTerminator(s[k])
    /\ \A k \in (m + 1) .. Len(s) : IsTerminator(s[k])

\* t is s without its leading and trailing whitespace
IsTrimOf(t, s) ==
  \E a \in 0 .. Len(s), b \in 0 .. Len(s) :
    /\ a <= b
    /\ t = SubSeq(s, a + 1, b)
    /\ \A k \in (1 .. a) \cup ((b + 1) .. Len(s)) : s[k] \in Whitespace
    /\ t # <<>> => (t[1] \notin Whitespace /\ t[Len(t)] \notin Whitespace)

Split(q) == q.pc = "splitDone"

\* C14 as stated: a text with at least one terminator gives a non-empty
\* sequence of scenes whose concatenation is the text's sentence content.
C14_TerminatorGivesScenes ==
  \A r \in Reqs :
    (Split(req[r]) /\ HasTerminator(req[r].noteText)) =>
      /\ Len(req[r].scenes) > 0
      /\ Concat(req[r].scenes) = SentenceContent(req[r].noteText)

\* C14, amended: the sequence of scenes is non-empty exactly when some
\* character that is no terminator is directly followed by a terminator; the
\* scenes, in order, concatenate to the text from its first such character
\* through its last terminator, each scene a run of non-terminators followed
\* by a run of terminators, and trimming takes only whitespace off a scene.
C14_SplitKeepsSentences ==
  \A r \in Reqs :
    LET q == req[r]
    IN  Split(q) =>
          /\ Len(q.scenes) > 0 <=> HasSentence(q.noteText)
          /\ Concat(q.scenes) = SentenceContent(q.noteText)
          /\ \A k \in 1 .. Len(q.scenes) :
               /\ IsSentence(q.scenes[k])
               /\ IsTrimOf(Trim(q.scenes[k]), q.scenes[k])
               /\ Trim(q.scenes[k]) # <<>>

\* a text was split into two scenes, the second of them starting with a
\* blank that trimming removes
C14_Witness ==
  \E r \in Reqs :
    /\ Split(req[r])
    /\ HasSentence(req[r].noteText)
    /\ Len(req[r].scenes) = 2
    /\ Trim(req[r].scenes[2]) # req[r].scenes[2]

\* the output, trimmed, is a numeral
IsNumeral(out) ==
  Trim(out) # <<>> /\ \A k \in 1 .. Len(Trim(out)) : IsDigit(Trim(out)[k])

\* the number a numeral denotes
RECURSIVE NumeralValue(_)
NumeralValue(digits) ==
  IF digits = <<>> THEN 0
  ELSE 10 * NumeralValue(SubSeq(digits, 1, Len(digits) - 1)) + DigitValue(digits[Len(digits)])

\* the output, trimmed, does not start like a number
Unparsable(out) == Trim(out) = <<>> \/ ~IsDigit(Trim(out)[1])

\* what the claim expects of a run that exited zero: the number that was
\* reported, zero when what was reported is no number; -1 when it says nothing
ExpectedDuration(run) ==
  IF variant = "note"
  THEN IF IsNumeral(run.out) THEN NumeralValue(Trim(run.out))
       ELSE IF Unparsable(run.out) THEN 0 ELSE -1
  ELSE IF run.meta.present /\ run.meta.value # NotANumber THEN run.meta.value ELSE 0

Probed(q) == q.pc = "probed"

\* C21: the prober fails exactly when the probing process exits nonzero;
\* when it exits zero, a duration that is no number (N/A, or nothing) gives
\* 0 and a number gives that number.
C21_ProberContract ==
  \A r \in Reqs :
    LET run == req[r].probe
    IN  Probed(req[r]) =>
          /\ run.failed <=> run.exit # 0
          /\ (run.exit = 0 /\ ExpectedDuration(run) # -1) =>
               run.duration = ExpectedDuration(run)

\* what holds of C21: the contract is kept by the prober that spawns ffprobe
\* itself, and by the other one as long as the duration is a number or absent
ProberContractOfSpawn ==
  \A r \in Reqs :
    LET run == req[r].probe
    IN  (Probed(req[r]) /\ run.meta.value # NotANumber) =>
          /\ run.failed <=> run.exit # 0
          /\ (run.exit = 0 /\ ExpectedDuration(run) # -1) =>
               run.duration = ExpectedDuration(run)

\* the encoder reported an error, or the file it left was read and is empty
EncoderFailed(q) ==
  \/ EventsOk(q, "encode", "error") # {}
  \/ EventsOk(q, "readOutput", "ok") # {} /\ q.videoBuffer.len = 0

\* C22: the encoder runs at most once in a run, and only when both manifests
\* are written with an entry for each of the N scenes; when it reports an
\* error or leaves an empty file the run fails with the encoding error: no
\* upload is made and no URL is returned.
C22_EncoderOnceAfterManifests ==
  \A r \in Reqs :
    LET q == req[r]
    IN  /\ Cardinality(Events(q, {"encode"})) <= 1
        /\ q.pc = "encode" =>
             /\ Events(q, {"encode"}) = {}
             /\ Len(q.sceneAssets) = Len(q.scenes) /\ Len(q.scenes) > 0
             /\ {ImageListName, AudioListName} \subseteq DOMAIN files[q.tempDir]
             /\ files[q.tempDir][ImageListName].len = 2 * Len(q.scenes)
             /\ files[q.tempDir][AudioListName].len = Len(q.scenes)
        /\ \A k \in Events(q, {"encode"}) :
             /\ k >= 3
             /\ q.log[k - 2] = Event("writeImageList", -1, "ok", 0, 0)
             /\ q.log[k - 1] = Event("writeAudioList", -1, "ok", 0, 0)
             /\ Cardinality(EventsOk(q, "probe", "ok")) = Len(q.scenes)
        /\ EncoderFailed(q) =>
             /\ q.err = Err("Encoding")
             /\ Events(q, {"upload"}) = {}
             /\ q.url = NoUrl
             /\ q.pc \in {"cleanup", "done"}
             /\ q.pc = "done" => (q.outcome = "thrown" /\ q.http.url = NoUrl)
             /\ DOMAIN store = {}

\* a run over two scenes has ended in the encoding error because the file the
\* encoder left was empty
C22_Witness ==
  \E r \in Reqs :
    LET q == req[r]
    IN  /\ q.pc = "done" /\ Len(q.scenes) = 2
        /\ EventsOk(q, "encode", "end") # {}
        /\ EventsOk(q, "readOutput", "ok") # {} /\ q.videoBuffer.len = 0
        /\ q.err = Err("Encoding")

\* the run of the pipeline has begun; it has ended, in success or in failure
Started(q) == q.pc = "mkdtemp" \/ Events(q, {"mkdtemp"}) # {}
Ended(q) == q.pc = "done" /\ q.outcome \in {"returned", "thrown"}

\* the calls a run over N scenes may make
CallsBounded(q) ==
  LET N == Len(q.scenes)
  IN  /\ Cardinality(Events(q, {"tts"})) <= N
      /\ Cardinality(Events(q, {"img"})) <= 2 * N
      /\ Cardinality(Events(q, {"wait"})) <= N
      /\ \A k \in Events(q, {"wait"}) : q.log[k].status = RetryDelaySeconds
      /\ Cardinality(Events(q, {"probe"})) <= N
      /\ Cardinality(Events(q, {"encode"})) <= 1
      /\ Cardinality(Events(q, {"upload"})) <= 1

\* C23: every call settling, a run that has begun ends, in success or in
\* failure, and has made no more than N speech calls, 2N image calls, N
\* waits of twenty seconds, N probe calls, one encoder run and one upload.
C23_RunEndsWithinBounds ==
  /\ \A r \in Solo : Started(req[r]) ~> Ended(req[r])
  /\ [](\A r \in Solo : CallsBounded(req[r]))

\* what holds of C23: the bounds on the calls, in every run
RunCallsBounded == \A r \in Reqs : CallsBounded(req[r])

\* ... and that a run ends unless it is the axios version's, pending on the
\* body of an error response
RunEndsUnlessPending ==
  \A r \in Solo : Started(req[r]) ~> (Ended(req[r]) \/ req[r].pc = "hung")

\* C24: in the pipeline behind the gateway the upload is made while the
\* request's temporary directory exists, and the directory is removed before
\* the answer is sent: at a 200 the object is stored under
\* note-videos/<noteId>.mp4 and the directory is gone, and a failed upload is
\* followed by the removal and only then by the 500.
C24_UploadThenCleanupThenAnswer ==
  \A r \in Reqs :
    LET q == req[r]
        uploads == Events(q, {"upload"})
        removals == Events(q, {"rm"})
        answers == Events(q, {"respond"})
    IN  (variant # "note" /\ uploads # {}) =>
          /\ \A u \in uploads, m \in removals : u < m
          /\ \A m \in removals, a \in answers : m < a
          /\ q.pc = "cleanup" => (q.tempDir \in dirs /\ removals = {} /\ answers = {})
          /\ q.pc = "done" =>
               /\ Cardinality(removals) = 1 /\ Cardinality(answers) = 1
               /\ q.tempDir \notin dirs
               /\ q.http.status = (IF Published(q) THEN Success ELSE ServerError)
               /\ q.http.status = Success =>
                    /\ NoteKey(q) \in DOMAIN store
                    /\ store[NoteKey(q)].bytes = q.videoBuffer
                    /\ q.http.url = PublicUrl(NoteKey(q))

\* a request was answered 200: its upload, the removal of its directory and
\* the answer are the last three entries of its log, in that order
C24_Witness ==
  \E r \in Reqs :
    LET q == req[r]
        n == Len(q.log)
    IN  /\ variant # "note" /\ q.pc = "done" /\ q.http.status = Success
        /\ n >= 3
        /\ q.log[n - 2].op = "upload" /\ q.log[n - 1].op = "rm" /\ q.log[n].op = "respond"
        /\ q.tempDir \notin dirs

\* all three fields are in the body, and one of them is falsy: noteId 0 or
\* null, noteText or subjectName the empty string
FieldFalsy(body) ==
  /\ body.kind = "json" /\ ~FieldAbsent(body)
  /\ \/ body.noteId \in {[t |-> "num", v |-> 0], [t |-> "null", v |-> 0]}
     \/ body.noteText = [t |-> "str", v |-> <<>>]
     \/ body.subjectName = [t |-> "str", v |-> ""]

\* C25: validation is by truthiness: an authenticated request with noteId 0
\* or null, or with an empty noteText or subjectName, gets the 400 of a
\* request lacking the field, and nothing of the pipeline runs for it.
C25_FalsyFieldIs400 ==
  \A r \in Reqs :
    LET q == req[r]
    IN  (Authenticated(q) /\ FieldFalsy(q.body)) =>
          /\ q.pc \in {"parsing", "handler", "done"}
          /\ q.tempDir = 0
          /\ Events(q, WorkOps \cup {"mkdtemp"}) = {}
          /\ q.pc = "done" =>
               q.http = [status |-> BadRequest, url |-> NoUrl,
                         error |-> "Missing required parameters."]

\* an authenticated request with noteId 0, a note and a subject got the 400
C25_Witness ==
  \E r \in Reqs :
    LET q == req[r]
    IN  /\ Authenticated(q) /\ q.pc = "done"
        /\ q.body.kind = "json"
        /\ q.body.noteId = [t |-> "num", v |-> 0]
        /\ TruthyText(q.body.noteText) /\ TruthyName(q.body.subjectName)
        /\ q.http.status = BadRequest

\* the entries of the request's own log that are failures of its own steps
OwnFailures(q) ==
  {k \in 1 .. Len(q.log) :
     \/ StepFailed(q.log[k])
     \/ q.log[k].res = "fail"
     \/ q.log[k].op = "encode" /\ q.log[k].res = "error"
     \/ q.log[k].op = "readOutput" /\ q.videoBuffer.len = 0}

\* C26: two requests for the same note that run at the same time upload to
\* the same key with upsert. Neither fails because of the other: a request
\* that failed has a failed step of its own, and no upload is refused. Both
\* get the same URL, and the object stored is the video of the request whose
\* upload was accepted last, whichever of the two that is.
C26_LastWriterWins ==
  \A r1, r2 \in Reqs :
    LET q1 == req[r1]
        q2 == req[r2]
    IN  (r1 # r2 /\ Started(q1) /\ Started(q2) /\ q1.noteId = q2.noteId) =>
          /\ q1.err.kind # "" => OwnFailures(q1) # {}
          /\ Events(q1, {"upload"}) # {} => (Published(q1) \/ EventsOk(q1, "upload", "fail") # {})
          /\ (q1.pc = "done" /\ OwnFailures(q1) = {}) => q1.http.status = Success
          /\ (q1.http.status = Success /\ q2.http.status = Success) => q1.http.url = q2.http.url
          /\ (Published(q1) /\ (Published(q2) => PublishedAt(q2) < PublishedAt(q1))) =>
               /\ store[NoteKey(q1)].by = r1
               /\ store[NoteKey(q1)].bytes = q1.videoBuffer
               /\ Cardinality(DOMAIN store) = 1

\* both requests for the same note are in flight with their uploads accepted,
\* the second's first: the object is the first request's
C26_Witness ==
  /\ req[1].noteId = req[2].noteId
  /\ req[1].pc = "cleanup" /\ req[2].pc = "cleanup"
  /\ Published(req[1]) /\ Published(req[2])
  /\ PublishedAt(req[2]) < PublishedAt(req[1])
  /\ store[NoteKey(req[1])].by = 1

\* the writes of the run that put a file into its directory
FileWrites(q) ==
  EventsOk(q, "writeAudio", "ok") \cup EventsOk(q, "writeImage", "ok")
    \cup EventsOk(q, "writeImageList", "ok") \cup EventsOk(q, "writeAudioList", "ok")
    \cup EventsOk(q, "encode", "end")

\* the last image call made for the scene
LastImageCall(q, s) ==
  CHOOSE k \in SceneEvents(q, "img", s) : \A j \in SceneEvents(q, "img", s) : j <= k

\* C27: the files a run stages have pairwise distinct names: each write makes
\* a new file, so the directory holds as many files as the run has written;
\* a scene's audio and image are written at most once and keep the bytes of
\* that scene's own calls, and the asset record of scene i names scene i's
\* two files.
C27_StagedFilesDistinct ==
  \A r \in Reqs :
    LET q == req[r]
        d == q.tempDir
    IN  /\ \A s \in 0 .. MaxLen :
             /\ Cardinality(SceneEvents(q, "writeAudio", s)) <= 1
             /\ Cardinality(SceneEvents(q, "writeImage", s)) <= 1
        /\ \A k \in 1 .. Len(q.sceneAssets) :
             /\ q.sceneAssets[k].audioPath = Path(d, AudioName(k - 1))
             /\ q.sceneAssets[k].imagePath = Path(d, ImageName(k - 1))
             /\ q.sceneAssets[k].audioPath # q.sceneAssets[k].imagePath
             /\ \A j \in 1 .. Len(q.sceneAssets) :
                  j # k => /\ q.sceneAssets[j].audioPath # q.sceneAssets[k].audioPath
                           /\ q.sceneAssets[j].imagePath # q.sceneAssets[k].imagePath
        /\ InFlight(q) =>
             /\ Cardinality(DOMAIN files[d]) = Cardinality(FileWrites(q))
             /\ \A k \in EventsOk(q, "writeAudio", "ok") :
                  /\ files[d][AudioName(q.log[k].scene)].kind = "bytes"
                  /\ files[d][AudioName(q.log[k].scene)].id = q.log[k - 1].body
             /\ \A k \in EventsOk(q, "writeImage", "ok") :
                  /\ files[d][ImageName(q.log[k].scene)].kind = "bytes"
                  /\ files[d][ImageName(q.log[k].scene)].id =
                       q.log[LastImageCall(q, q.log[k].scene)].body
             /\ EventsOk(q, "writeImageList", "ok") # {} =>
                  files[d][ImageListName].kind = "list"
             /\ EventsOk(q, "writeAudioList", "ok") # {} =>
                  files[d][AudioListName].kind = "list"

\* a run over two scenes has staged its seven files: two audio files, two
\* images, two manifests and the video
C27_Witness ==
  \E r \in Reqs :
    LET q == req[r]
    IN  /\ q.pc = "readOutput" /\ Len(q.scenes) = 2
        /\ DOMAIN files[q.tempDir] =
             {AudioName(0), AudioName(1), ImageName(0), ImageName(1),
              ImageListName, AudioListName, FinalVideoName}
        /\ Cardinality(DOMAIN files[q.tempDir]) = 7

====
